---- MODULE Spec2Model ----
(***************************************************************************)
(* State machine of the App component of src/src/App.tsx: the React state  *)
(* (files, activeFileId, videoEnabled, peers, rightPanel), the refs        *)
(* (editorRef, providerRef, bindingsRef, the preview iframe, the local     *)
(* video element) and the effects that run after each render.  One action  *)
(* is one handler or callback together with the re-render and the effects  *)
(* it triggers.                                                            *)
(*                                                                         *)
(* File names are sequences of one-character strings, so that split('.'),  *)
(* toLowerCase() and endsWith() are computed and not assumed.  File ids    *)
(* are the numbers whose decimal rendering the code stores ('1','2','3',   *)
(* Date.now().toString()); toString is injective on them.                  *)
(***************************************************************************)
EXTENDS Integers, Sequences, FiniteSets, TLC

VARIABLES
    files,            \* useState<File[]>            App.tsx:32
    activeFileId,     \* useState<string>            App.tsx:37
    videoEnabled,     \* useState(false)             App.tsx:38
    peers,            \* useState<Set<string>>       App.tsx:39
    rightPanel,       \* useState<Panel>             App.tsx:40
    editorRef,        \* TRUE once the editor mounted App.tsx:31,141
    listenerFileId,   \* activeFileId captured by the content listener App.tsx:150-155
    bindingsRef,      \* key set of bindingsRef.current App.tsx:46
    providerRef,      \* the connected provider: [doc, room] App.tsx:43
    docsCreated,      \* number of Y.Doc / WebrtcProvider pairs constructed
    awareness,        \* key set of provider.awareness.getStates()
    previewDoc,       \* previewRef.current.contentDocument is non-null
    previewWritten,   \* <<>> or <<document last written to the iframe>>
    streams,          \* one entry per getUserMedia request, in issue order
    srcObject,        \* index in streams attached to the local video, or 0
    now,              \* Date.now()
    panelTrail        \* history: the last two togglePanel calls

vars == << files, activeFileId, videoEnabled, peers, rightPanel, editorRef,
           listenerFileId, bindingsRef, providerRef, docsCreated, awareness,
           previewDoc, previewWritten, streams, srcObject, now, panelTrail >>

fileVars  == << files, activeFileId, editorRef, listenerFileId, bindingsRef >>
yjsVars   == << providerRef, docsCreated, awareness >>
panelVars == << rightPanel, previewDoc, previewWritten, panelTrail >>
videoVars == << videoEnabled, streams, srcObject >>

-----------------------------------------------------------------------------
(* Bounds of the model *)

\* files created by addNewFile
MaxNewFiles == 2
\* clock ticks after start-up
MaxTicks == 1
\* Y.Doc / provider pairs constructed
MaxDocs == 4
\* getUserMedia requests issued
MaxRequests == 2

-----------------------------------------------------------------------------
(* Strings *)

ToLowerChar(c) ==
    CASE c = "J" -> "j"
      [] c = "S" -> "s"
      [] c = "M" -> "m"
      [] c = "D" -> "d"
      [] OTHER -> c

toLowerCase(s) == [i \in 1..Len(s) |-> ToLowerChar(s[i])]

\* s.endsWith(suffix)
endsWith(s, suffix) ==
    /\ Len(s) >= Len(suffix)
    /\ SubSeq(s, Len(s) - Len(suffix) + 1, Len(s)) = suffix

\* index of the last '.' of s, 0 when there is none
LastDot(s) ==
    LET dots == {i \in 1..Len(s) : s[i] = "."}
    IN  IF dots = {} THEN 0 ELSE CHOOSE i \in dots : \A j \in dots : j <= i

\* fileName.split('.').pop()?.toLowerCase() || ''
extensionOf(fileName) ==
    toLowerCase(SubSeq(fileName, LastDot(fileName) + 1, Len(fileName)))

\* the switch of addNewFile
languageOf(extension) ==
    CASE extension = <<"h","t","m","l">> -> "html"
      [] extension = <<"c","s","s">>     -> "css"
      [] extension = <<"j","s">>         -> "javascript"
      [] extension = <<"t","s">>         -> "typescript"
      [] extension = <<"j","s","o","n">> -> "json"
      [] extension = <<"m","d">>         -> "markdown"
      [] OTHER                           -> "plaintext"

DotHtml == <<".","h","t","m","l">>
DotCss  == <<".","c","s","s">>
DotJs   == <<".","j","s">>

-----------------------------------------------------------------------------
(* Inputs *)

Panel == {"preview", "terminal", "none"}

DefaultFiles ==
    << [id |-> 1, name |-> <<"i","n","d","e","x",".","h","t","m","l">>,
        language |-> "html", content |-> ""],
       [id |-> 2, name |-> <<"s","t","y","l","e","s",".","c","s","s">>,
        language |-> "css", content |-> ""],
       [id |-> 3, name |-> <<"s","c","r","i","p","t",".","j","s">>,
        language |-> "javascript", content |-> ""] >>

\* answers to prompt() tried in the file-state specification
PromptNames ==
    { <<>>,
      <<"a",".","h","t","m","l">>,
      <<"j","s">> }

\* answers to prompt() tried in the language specification
AllNames ==
    { <<>>,
      <<"a",".","h","t","m","l">>,
      <<"a",".","c","s","s">>,
      <<"a",".","j","s">>,
      <<"a",".","t","s">>,
      <<"a",".","j","s","o","n">>,
      <<"a",".","b",".","m","d">>,
      <<"x",".","J","S">>,
      <<"R",".","M","D">>,
      <<"n",".","t","x","t">>,
      <<"t",".">>,
      <<".","j","s">>,
      <<"m","a","k","e">>,
      <<"j","s">>,
      <<"m","d">> }

\* texts the editor may hold
Contents == {"", "a", "b"}

\* awareness client ids of remote participants; the local one is the doc's
RemoteClients == {101}

-----------------------------------------------------------------------------
(* Helpers of the render and of the effects *)

FileIds(fs) == {fs[i].id : i \in DOMAIN fs}

\* files.find(f => f.id === id): index of the first match, 0 for undefined
findById(fs, id) ==
    LET hits == {i \in DOMAIN fs : fs[i].id = id}
    IN  IF hits = {} THEN 0 ELSE CHOOSE i \in hits : \A j \in hits : i <= j

\* a faulty contentEndingWith: the last match instead of the first
contentEndingWithLast(fs, suffix) ==
    LET hits == {i \in DOMAIN fs : endsWith(fs[i].name, suffix)}
    IN  IF hits = {} THEN ""
        ELSE fs[CHOOSE i \in hits : \A j \in hits : j <= i].content

\* files.find(f => f.name.endsWith(suffix))?.content || ''
contentEndingWith(fs, suffix) ==
    LET hits == {i \in DOMAIN fs : endsWith(fs[i].name, suffix)}
    IN  IF hits = {} THEN ""
        ELSE fs[CHOOSE i \in hits : \A j \in hits : i <= j].content

\* the template written by the preview effect
previewDocument(fs) ==
    [ css  |-> contentEndingWith(fs, DotCss),
      html |-> contentEndingWith(fs, DotHtml),
      js   |-> contentEndingWith(fs, DotJs) ]

\* the preview effect, run after a render that changed files or rightPanel
previewEffect(fs, panel, doc, written) ==
    IF panel = "preview" /\ doc THEN << previewDocument(fs) >> ELSE written

\* setFiles(prev => prev.map(f => f.id === id ? { ...f, content } : f))
setContent(prev, id, content) ==
    [i \in DOMAIN prev |->
        IF prev[i].id = id THEN [prev[i] EXCEPT !.content = content]
        ELSE prev[i]]

\* a faulty appendFile: the new file is put first
prependFile(prev, newFile) == << newFile >> \o prev

\* setFiles(prev => [...prev, newFile])
appendFile(prev, newFile) == Append(prev, newFile)

\* a faulty togglePanel: the panel is shown whatever was shown before
showPanel(prev, panel) == panel

\* setRightPanel(prev => prev === panel ? 'none' : panel)
togglePanel(prev, panel) == IF prev = panel THEN "none" ELSE panel

\* the new File of addNewFile
newFileOf(fileName, clock) ==
    [ id       |-> clock,
      name     |-> fileName,
      language |-> languageOf(extensionOf(fileName)),
      content  |-> "" ]

\* a faulty updatePeers: the local client is left out
remotePeersOnly(states) == states \cap RemoteClients

\* keys of provider.awareness.getStates() passed to setPeers
updatePeers(states) == states

\* the cleanup of the video effect: tracks of the stream attached to the local
\* video element are stopped, when the ref still points at an element
videoCleanup(refCurrent, src, strms) ==
    IF refCurrent /\ src # 0
    THEN [strms EXCEPT ![src] = "stopped"]
    ELSE strms

LastTwo(s) == IF Len(s) <= 2 THEN s ELSE SubSeq(s, Len(s) - 1, Len(s))

-----------------------------------------------------------------------------
(* Initial state: after the first render and its effects *)

Init ==
    /\ files = DefaultFiles
    /\ activeFileId = 1
    /\ videoEnabled = FALSE
    /\ peers = {}
    /\ rightPanel = "none"
    /\ editorRef = FALSE
    /\ listenerFileId = 0
    /\ bindingsRef = {}
    /\ now = Len(DefaultFiles) + 1
    /\ providerRef = [doc |-> 1, room |-> Len(DefaultFiles) + 1]
    /\ docsCreated = 1
    /\ awareness = {1}
    /\ previewDoc = FALSE
    /\ previewWritten = << >>
    /\ streams = << >>
    /\ srcObject = 0
    /\ panelTrail = << >>

-----------------------------------------------------------------------------
(* Effects that depend on files *)

\* The Yjs effect has [files] as dependencies: after a render with a new files
\* array its cleanup runs (disconnect, destroy, providerRef.current = null) and
\* then its body, which finds providerRef.current null and constructs anew.
YjsEffect(fs) ==
    /\ docsCreated < MaxDocs
    /\ docsCreated' = docsCreated + 1
    /\ providerRef' = [doc |-> docsCreated + 1, room |-> now]
    /\ awareness' = {docsCreated + 1}
    /\ bindingsRef' = IF editorRef THEN bindingsRef \cup FileIds(fs)
                      ELSE bindingsRef

\* every effect that re-runs after files changed to fs
FilesChanged(fs) ==
    /\ YjsEffect(fs)
    /\ previewWritten' = previewEffect(fs, rightPanel, previewDoc, previewWritten)
    /\ UNCHANGED << rightPanel, previewDoc, panelTrail >>

-----------------------------------------------------------------------------
(* Actions *)

\* the text-editor widget calls onMount once
handleEditorDidMount ==
    /\ ~editorRef
    /\ editorRef' = TRUE
    /\ bindingsRef' = bindingsRef \cup FileIds(files)
    /\ listenerFileId' = activeFileId
    /\ UNCHANGED << files, activeFileId, peers, now >>
    /\ UNCHANGED << yjsVars, panelVars, videoVars >>

\* the listener registered by handleEditorDidMount
onDidChangeModelContent(content) ==
    /\ editorRef
    /\ files' = setContent(files, listenerFileId, content)
    /\ FilesChanged(files')
    /\ UNCHANGED << activeFileId, editorRef, listenerFileId, peers, now >>
    /\ UNCHANGED videoVars

\* a click in the file explorer
setActiveFileId(id) ==
    /\ id \in FileIds(files)
    /\ activeFileId' = id
    /\ UNCHANGED << files, editorRef, listenerFileId, bindingsRef, peers, now >>
    /\ UNCHANGED << yjsVars, panelVars, videoVars >>

\* cancelled: prompt() returned null; otherwise it returned fileName
addNewFile(cancelled, fileName) ==
    IF cancelled \/ fileName = << >>
    THEN UNCHANGED vars
    ELSE /\ Len(files) < Len(DefaultFiles) + MaxNewFiles
         /\ files' = appendFile(files, newFileOf(fileName, now))
         /\ activeFileId' = newFileOf(fileName, now).id
         /\ FilesChanged(files')
         /\ UNCHANGED << editorRef, listenerFileId, peers, now >>
         /\ UNCHANGED videoVars

saveFile ==
    /\ findById(files, activeFileId) # 0
    /\ UNCHANGED vars

TogglePanel(panel) ==
    /\ rightPanel' = togglePanel(rightPanel, panel)
    /\ panelTrail' = LastTwo(Append(panelTrail,
                                    [panel |-> panel, before |-> rightPanel]))
    /\ IF rightPanel' = "preview"
       THEN \* a new iframe is mounted; its contentDocument may be null
            /\ previewDoc' \in BOOLEAN
            /\ previewWritten' = previewEffect(files, "preview", previewDoc', << >>)
       ELSE \* the iframe, if any, is unmounted
            /\ previewDoc' = FALSE
            /\ previewWritten' = << >>
    /\ UNCHANGED << fileVars, peers, now >>
    /\ UNCHANGED << yjsVars, videoVars >>

\* The video element is rendered only while videoEnabled.  On disabling, the
\* commit detaches localVideoRef before the effect cleanup runs.
toggleVideo ==
    /\ videoEnabled' = ~videoEnabled
    /\ IF videoEnabled'
       THEN /\ Len(streams) < MaxRequests
            /\ streams' = Append(streams, "pending")
            /\ srcObject' = 0
       ELSE /\ streams' = videoCleanup(FALSE, srcObject, streams)
            /\ srcObject' = 0
    /\ UNCHANGED << fileVars, peers, now >>
    /\ UNCHANGED << yjsVars, panelVars >>

\* .then(stream => ...) of request i
GetUserMediaResolve(i) ==
    /\ i \in DOMAIN streams
    /\ streams[i] = "pending"
    /\ streams' = [streams EXCEPT ![i] = "live"]
    /\ srcObject' = IF videoEnabled THEN i ELSE srcObject
    /\ UNCHANGED << videoEnabled, fileVars, peers, now >>
    /\ UNCHANGED << yjsVars, panelVars >>

\* a faulty GetUserMediaReject: the request is issued again
GetUserMediaRejectRetry(i) ==
    /\ i \in DOMAIN streams
    /\ streams[i] = "pending"
    /\ Len(streams) < MaxRequests
    /\ streams' = Append([streams EXCEPT ![i] = "rejected"], "pending")
    /\ UNCHANGED << videoEnabled, srcObject, fileVars, peers, now >>
    /\ UNCHANGED << yjsVars, panelVars >>

\* .catch(err => console.error(...)) of request i
GetUserMediaReject(i) ==
    /\ i \in DOMAIN streams
    /\ streams[i] = "pending"
    /\ streams' = [streams EXCEPT ![i] = "rejected"]
    /\ UNCHANGED << videoEnabled, srcObject, fileVars, peers, now >>
    /\ UNCHANGED << yjsVars, panelVars >>

\* an awareness 'change' event of the connected provider
AwarenessChange(states) ==
    /\ awareness' = states
    /\ peers' = updatePeers(awareness')
    /\ UNCHANGED << fileVars, providerRef, docsCreated, now >>
    /\ UNCHANGED << panelVars, videoVars >>

Tick ==
    /\ now < Len(DefaultFiles) + 1 + MaxTicks
    /\ now' = now + 1
    /\ UNCHANGED << fileVars, peers >>
    /\ UNCHANGED << yjsVars, panelVars, videoVars >>

-----------------------------------------------------------------------------
(* Specifications *)

\* the file handlers, the editor, the panels and the clock
NextFiles ==
    \/ handleEditorDidMount
    \/ \E c \in Contents : onDidChangeModelContent(c)
    \/ \E id \in FileIds(files) : setActiveFileId(id)
    \/ \E cancelled \in BOOLEAN, n \in PromptNames : addNewFile(cancelled, n)
    \/ saveFile
    \/ \E p \in {"preview", "terminal"} : TogglePanel(p)
    \/ Tick

SpecFiles == Init /\ [][NextFiles]_vars

\* the user actions and the callbacks that act on the React state, with one
\* file name and one text; the clock is explored in SpecFiles and SpecLanguage
Next ==
    \/ handleEditorDidMount
    \/ \E c \in {"a"} : onDidChangeModelContent(c)
    \/ \E id \in FileIds(files) : setActiveFileId(id)
    \/ \E cancelled \in BOOLEAN, n \in {<< >>, <<"j","s">>} : addNewFile(cancelled, n)
    \/ saveFile
    \/ \E p \in {"preview", "terminal"} : TogglePanel(p)
    \/ toggleVideo
    \/ \E s \in SUBSET (RemoteClients \cup {providerRef.doc}) : AwarenessChange(s)

Spec == Init /\ [][Next]_vars

\* addNewFile over every file name of AllNames
NextLanguage ==
    \/ \E id \in FileIds(files) : setActiveFileId(id)
    \/ \E cancelled \in BOOLEAN, n \in AllNames : addNewFile(cancelled, n)
    \/ Tick

SpecLanguage == Init /\ [][NextLanguage]_vars

\* the video toggle and the outcomes of getUserMedia, beside the panels
NextVideo ==
    \/ toggleVideo
    \/ \E i \in 1..MaxRequests : GetUserMediaResolve(i)
    \/ \E i \in 1..MaxRequests : GetUserMediaReject(i)
    \/ \E id \in FileIds(files) : setActiveFileId(id)
    \/ \E p \in {"preview", "terminal"} : TogglePanel(p)
    \/ \E s \in SUBSET (RemoteClients \cup {providerRef.doc}) : AwarenessChange(s)

SpecVideo == Init /\ [][NextVideo]_vars

-----------------------------------------------------------------------------
(* Properties *)

\* C1: when the editor reports a content change, the content of the file that
\* is active at that moment becomes the editor's text and every other file is
\* left as it was.
C1_ChangeGoesToActiveFile ==
    [][\A c \in Contents :
          onDidChangeModelContent(c) =>
              files' = [i \in DOMAIN files |->
                          IF files[i].id = activeFileId
                          THEN [files[i] EXCEPT !.content = c]
                          ELSE files[i]]]_vars

\* C2: files starts as the three defaults; no step removes a file or changes
\* the id, name or language of an existing one; files grows only by one file
\* appended with a non-empty name; a cancelled or empty prompt leaves files and
\* activeFileId unchanged.
C2_FilesOnlyGrow ==
    /\ files = DefaultFiles
    /\ [][/\ Len(files') >= Len(files)
          /\ \A i \in DOMAIN files :
                /\ files'[i].id = files[i].id
                /\ files'[i].name = files[i].name
                /\ files'[i].language = files[i].language
          /\ Len(files') # Len(files) =>
                /\ Len(files') = Len(files) + 1
                /\ files'[Len(files')].name # << >>
                /\ \E n \in AllNames \ {<< >>} : addNewFile(FALSE, n)
          /\ \A n \in AllNames :
                (addNewFile(TRUE, n) \/ addNewFile(FALSE, << >>)) =>
                    UNCHANGED << files, activeFileId >>]_vars

C2_Witness ==
    /\ Len(files) = Len(DefaultFiles) + 2
    /\ \E i \in DOMAIN files : files[i].content # ""
    /\ videoEnabled
    /\ peers # {}
    /\ rightPanel # "none"

\* C3: rightPanel is always one of preview, terminal, none, and two consecutive
\* togglePanel(p) calls that start from 'none' end with 'none'.
C3_DoubleToggle ==
    /\ rightPanel \in Panel
    /\ ( /\ Len(panelTrail) = 2
         /\ panelTrail[1].before = "none"
         /\ panelTrail[1].panel = panelTrail[2].panel )
       => rightPanel = "none"

C3_Witness ==
    /\ Len(panelTrail) = 2
    /\ panelTrail[1] = [panel |-> "terminal", before |-> "none"]
    /\ panelTrail[2] = [panel |-> "terminal", before |-> "terminal"]
    /\ rightPanel = "none"

\* the language the claim C4 gives a name: by the lower-cased text after the
\* last '.', and 'plaintext' for a name without '.'
ClaimedLanguage(name) ==
    LET ext == toLowerCase(SubSeq(name, LastDot(name) + 1, Len(name)))
    IN  IF LastDot(name) = 0 THEN "plaintext"
        ELSE CASE ext = <<"h","t","m","l">> -> "html"
               [] ext = <<"c","s","s">>     -> "css"
               [] ext = <<"j","s">>         -> "javascript"
               [] ext = <<"t","s">>         -> "typescript"
               [] ext = <<"j","s","o","n">> -> "json"
               [] ext = <<"m","d">>         -> "markdown"
               [] OTHER                     -> "plaintext"

\* C4: a file created by addNewFile has the language of its extension, and
\* 'plaintext' when the name has an unrecognised extension or none; it has
\* empty content when created.
C4_LanguageFromExtension ==
    \A i \in DOMAIN files :
        i > Len(DefaultFiles) =>
            /\ files[i].language = ClaimedLanguage(files[i].name)
            /\ files[i].content = ""

\* C5: peers is empty at first; an awareness change event of the connected
\* provider sets peers to the key set of its awareness states; peers changes in
\* no other step.
C5_PeersFollowAwareness ==
    /\ peers = {}
    /\ [][/\ \A s \in SUBSET (RemoteClients \cup {providerRef.doc}) :
                AwarenessChange(s) => (awareness' = s /\ peers' = s)
          /\ peers' # peers =>
                /\ peers' = awareness'
                /\ UNCHANGED << files, activeFileId, rightPanel, videoEnabled,
                                providerRef, docsCreated >>]_vars

C5_Witness ==
    /\ docsCreated > 1
    /\ awareness = {providerRef.doc} \cup RemoteClients
    /\ peers = awareness

\* C6: a rejected getUserMedia request leaves files, activeFileId, rightPanel,
\* peers and videoEnabled unchanged, attaches no stream, and issues no request;
\* a request is issued only by the step that turns video on.
C6_RejectionOnlyLogged ==
    [][/\ (\E i \in DOMAIN streams :
              streams[i] = "pending" /\ streams'[i] = "rejected") =>
                /\ UNCHANGED << files, activeFileId, rightPanel, peers,
                                videoEnabled, srcObject >>
                /\ Len(streams') = Len(streams)
       /\ Len(streams') > Len(streams) => (~videoEnabled /\ videoEnabled')]_vars

C6_Witness ==
    /\ videoEnabled
    /\ streams = << "rejected" >>
    /\ srcObject = 0

\* C7: the provider created first stays the connected one, with its room and
\* document, and no second Y.Doc / WebrtcProvider is created.
C7_SingleProvider ==
    /\ docsCreated = 1
    /\ providerRef = [doc |-> 1, room |-> Len(DefaultFiles) + 1]

\* content of the first file of fs, from position i on, whose name ends with
\* suffix; '' when there is none
RECURSIVE FirstContentFrom(_, _, _)
FirstContentFrom(fs, suffix, i) ==
    IF i > Len(fs) THEN ""
    ELSE IF endsWith(fs[i].name, suffix) THEN fs[i].content
    ELSE FirstContentFrom(fs, suffix, i + 1)

\* C8: while the preview is shown and its document is available, the document
\* last written is built from the current content of the first .html, the
\* first .css and the first .js file; otherwise nothing is written.
C8_PreviewIsLive ==
    IF rightPanel = "preview" /\ previewDoc
    THEN previewWritten = << [ css  |-> FirstContentFrom(files, DotCss, 1),
                               html |-> FirstContentFrom(files, DotHtml, 1),
                               js   |-> FirstContentFrom(files, DotJs, 1) ] >>
    ELSE previewWritten = << >>

C8_Witness ==
    /\ rightPanel = "preview"
    /\ previewDoc
    /\ files[1].content = ""
    /\ \E i \in DOMAIN files :
          /\ i > Len(DefaultFiles)
          /\ endsWith(files[i].name, DotHtml)
          /\ files[i].content = "a"
    /\ previewWritten = << [css |-> "", html |-> "", js |-> ""] >>

\* C9: exactly one file of files has id activeFileId.
C9_OneActiveFile ==
    Cardinality({i \in DOMAIN files : files[i].id = activeFileId}) = 1

\* C10: while video is disabled no stream obtained from getUserMedia has
\* running tracks.
C10_NoStreamOutlivesVideo ==
    ~videoEnabled => \A i \in DOMAIN streams : streams[i] # "live"

====
